---------------------------- MODULE Spec2Model ----------------------------
(***************************************************************************)
(* Model of bt-notsports: the Bluetooth adapter watcher (bluetooth.rs),    *)
(* the indicator sink (tray.rs) and the reconciler between them.           *)
(*                                                                         *)
(* These specifications share this module:                                 *)
(*   SpecBuild   - build_state / BTDevice::from_device as a computation    *)
(*                 over arbitrary (fallible) driver answers;               *)
(*   SpecBoot    - the session bootstrap of init_bluetooth;                *)
(*   SpecMailbox - one tokio mpsc mailbox of capacity 32 with two senders; *)
(*   Spec        - the request loop with its delayed rebuilds, and the     *)
(*                 delivery of the snapshots to the indicator sink;        *)
(*   SpecLoop    - the request loop and its delayed rebuilds alone;        *)
(*   SpecSink    - one intent handled beside the change listener;          *)
(*   SpecListen  - the same, the listener's subscription loop in detail;   *)
(*   SpecTray    - the indicator sink alone;                               *)
(*   SpecApp     - App::run;                                               *)
(*   SpecBackpressure - the three mailboxes under load;                    *)
(*   SpecOrder, SpecEq - Ord and PartialEq of BTDevice on drawn inputs;    *)
(*   SpecPipeline - all tasks of the pipeline together.                    *)
(*                                                                         *)
(* Strings are sequences of ASCII codes, so that to_string / to_lowercase  *)
(* and byte-wise string comparison are computed as Rust computes them.     *)
(***************************************************************************)
EXTENDS Integers, Sequences, FiniteSets, TLC

VARIABLES
    \* ---- SpecBuild: one run of build_state ----
    bs_pc,          \* "power" | "addresses" | "devices" | "done"
    bs_on,          \* value of `on` once the power query succeeded
    bs_enumerated,  \* addresses returned by device_addresses (after unwrap_or_default)
    bs_resolved,    \* history: addresses whose adapter.device(address) was Ok
    bs_pending,     \* futures still in the FuturesUnordered (by address)
    bs_devices,     \* `devices` Vec, in completion order, sorted at the end
    bs_result,      \* the Result<BTState> returned
    bs_lastq,       \* history: driver answers used for the last device pushed
    bs_allfailed,   \* history: every per-device sub-query so far failed
    \* ---- SpecBoot: the start of init_bluetooth ----
    boot_pc,        \* "open" | "check" | "sleep" | "adapter" | "build" | "send"
                    \* | "spawn" | "done" | "fatal"
    retry_count,    \* the u32 retry counter
    boot_error,     \* which step reported the fatal error ("" while none)
    boot_init_sent, \* BTEvent::Init has been sent on tx
    boot_spawned,   \* tasks spawned so far: "listener", "loop"
    boot_attempts,  \* history: number of Session::new() calls made
    boot_slept,     \* history: the delays slept, in order (milliseconds)
    \* ---- SpecMailbox: one channel(32) and two clones of its Sender ----
    mb_queue,       \* messages accepted and not yet received
    mb_pc,          \* per sender: "idle" | "sending" (inside send().await)
    mb_sent,        \* per sender: number of its messages accepted so far
    mb_recv,        \* per sender: number of its messages received so far
    mb_last,        \* per sender: sequence number of its message received last
    \* ---- Spec: the running pipeline ----
    hw_on,          \* hardware: adapter powered
    hw_conn,        \* hardware: addresses of the connected devices
    hw_events,      \* change events waiting in the listener's stream
    hw_changes,     \* number of spontaneous hardware changes so far
    btq,            \* mailbox of the watcher's request loop (BTEvent)
    appq,           \* mailbox of the Reconciler (AppEvent)
    trayq,          \* mailbox of the Indicator Sink (TrayEvent)
    w_pc,           \* request loop: "recv" | "mutate" | "settle" | "build" | "send"
    w_msg,          \* request loop: the BTEvent being handled
    w_snap,         \* request loop: the snapshot about to be sent
    w_calls,        \* history: hardware mutation calls issued for w_msg
    l_pc,           \* listener: "subscribe" | "next" | "send" | "stopped"
    l_snap,         \* listener: the snapshot about to be sent
    l_count,        \* listener: `count` of the subscription loop (0 outside it)
    d_pc,           \* delayed rebuild of intent i: "none" | "sleeping" | "send" | "done"
    d_snap,         \* delayed rebuild of intent i: the snapshot about to be sent
    r_held,         \* Reconciler: the snapshot it holds
    t_state,        \* Tray::state
    t_menu,         \* the menu entries last built by Tray::menu, with their captures
    t_tasks,        \* send_action tasks spawned and not yet finished
    t_activated,    \* number of menu activations so far
    g_requests,     \* history: number of Requests put on btq
    g_intent,       \* history: per intent, what its handling did
    g_pubs,         \* history: number of snapshots put on appq
    g_lastpub,      \* history: the snapshot put on appq last
    g_shown,        \* history: number of snapshots applied to the tray
    \* ---- SpecOrder, SpecEq: Ord and PartialEq of BTDevice on drawn inputs ----
    f_pc,           \* "input" | "sorted" | "resorted" | "compared"
    f_in,           \* the devices drawn: a Vec<BTDevice>, or a pair of BTDevice
    f_out,          \* what the calls returned so far
    \* ---- SpecApp: App::run ----
    a_pc,           \* the event loop of run: "recv" | "returned"
    a_task,         \* the spawned action task: "recv" | "panicked"
    a_events,       \* mailbox behind event_rx (Event)
    a_actions,      \* mailbox behind action_rx (Action)
    a_esent,        \* number of events sent so far
    a_asent,        \* number of actions sent so far
    a_log,          \* history: the events and actions received, in order
    \* ---- SpecBackpressure: the mailboxes between sink, Reconciler and watcher ----
    bp_btq,         \* watcher's mailbox: kinds of the BTEvents waiting
    bp_appq,        \* Reconciler's mailbox: kinds of the AppEvents waiting
    bp_trayq,       \* sink's mailbox: number of TrayEvents waiting
    bp_w,           \* request loop: "recv" | "handle" | "send"
    bp_r,           \* Reconciler: "recv" | "send_bt" | "send_tray"
    bp_tasks,       \* send_action tasks inside send().await
    bp_clicks,      \* number of menu activations so far
    bp_served       \* number of BTEvents the request loop has received so far

buildVars == <<bs_pc, bs_on, bs_enumerated, bs_resolved, bs_pending, bs_devices, bs_result,
               bs_lastq, bs_allfailed>>

bootVars == <<boot_pc, retry_count, boot_error, boot_init_sent, boot_spawned,
              boot_attempts, boot_slept>>

mailVars == <<mb_queue, mb_pc, mb_sent, mb_recv, mb_last>>

hwVars == <<hw_on, hw_conn, hw_events, hw_changes>>
wVars == <<w_pc, w_msg, w_snap, w_calls>>
lVars == <<l_pc, l_snap, l_count>>
dVars == <<d_pc, d_snap>>
rVars == <<r_held>>
tVars == <<t_state, t_menu, t_tasks, t_activated>>
gVars == <<g_requests, g_intent, g_pubs, g_lastpub, g_shown>>
pipeVars == <<hwVars, btq, appq, trayq, wVars, lVars, dVars, rVars, tVars, gVars>>

fnVars == <<f_pc, f_in, f_out>>
appVars == <<a_pc, a_task, a_events, a_actions, a_esent, a_asent, a_log>>
bpVars == <<bp_btq, bp_appq, bp_trayq, bp_w, bp_r, bp_tasks, bp_clicks, bp_served>>

vars == <<buildVars, bootVars, mailVars, pipeVars, fnVars, appVars, bpVars>>

notBuild == <<bootVars, mailVars, pipeVars, fnVars, appVars, bpVars>>
notBoot == <<buildVars, mailVars, pipeVars, fnVars, appVars, bpVars>>
notMail == <<buildVars, bootVars, pipeVars, fnVars, appVars, bpVars>>
notPipe == <<buildVars, bootVars, mailVars, fnVars, appVars, bpVars>>
notFn == <<buildVars, bootVars, mailVars, pipeVars, appVars, bpVars>>
notApp == <<buildVars, bootVars, mailVars, pipeVars, fnVars, bpVars>>
notBp == <<buildVars, bootVars, mailVars, pipeVars, fnVars, appVars>>

-----------------------------------------------------------------------------
(* Strings and addresses *)

Min(a, b) == IF a <= b THEN a ELSE b

\* One upper-case hexadecimal digit as an ASCII code ('0'..'9', 'A'..'F').
HexDigit(d) == IF d < 10 THEN 48 + d ELSE 55 + d

\* "{:02X}" of one byte.
HexByte(b) == <<HexDigit(b \div 16), HexDigit(b % 16)>>

RECURSIVE JoinColon(_)
JoinColon(bytes) ==
    IF Len(bytes) = 0 THEN <<>>
    ELSE IF Len(bytes) = 1 THEN HexByte(bytes[1])
    ELSE HexByte(bytes[1]) \o <<58>> \o JoinColon(Tail(bytes))

\* Address::to_string(): six bytes as XX:XX:XX:XX:XX:XX.
AddressToString(addr) == JoinColon(addr)

\* str::to_lowercase on ASCII text.
LowerChar(c) == IF c >= 65 /\ c <= 90 THEN c + 32 ELSE c
to_lowercase(s) == [i \in 1..Len(s) |-> LowerChar(s[i])]

\* Ord for String: byte-wise lexicographic. -1 Less, 0 Equal, 1 Greater.
RECURSIVE StrCmp(_, _)
StrCmp(s, t) ==
    IF Len(s) = 0 /\ Len(t) = 0 THEN 0
    ELSE IF Len(s) = 0 THEN -1
    ELSE IF Len(t) = 0 THEN 1
    ELSE IF s[1] < t[1] THEN -1
    ELSE IF s[1] > t[1] THEN 1
    ELSE StrCmp(Tail(s), Tail(t))

\* AA:BB:CC:DD:EE:FF and 00:1A:7D:DA:71:13
Addr1 == <<170, 187, 204, 221, 238, 255>>
Addr2 == <<0, 26, 125, 218, 113, 19>>
Addrs == {Addr1, Addr2}

\* "ab", "B" and the empty name
NameAb == <<97, 98>>
NameB == <<66>>
NameEmpty == <<>>
Names == {NameAb, NameB, NameEmpty}

-----------------------------------------------------------------------------
(* Driver answers: Result<T> and Option<T> as records *)

NoBattery == [some |-> FALSE, val |-> 0]
Battery(p) == [some |-> TRUE, val |-> p]

\* device.name(): Result<Option<String>>
NameAnswers ==
    {[ok |-> FALSE, some |-> FALSE, val |-> <<>>],
     [ok |-> TRUE, some |-> FALSE, val |-> <<>>]}
    \cup {[ok |-> TRUE, some |-> TRUE, val |-> n] : n \in Names}

\* is_paired / is_trusted / is_connected / is_powered: Result<bool>
BoolAnswers ==
    {[ok |-> FALSE, val |-> FALSE], [ok |-> TRUE, val |-> FALSE],
     [ok |-> TRUE, val |-> TRUE]}

\* device.battery_percentage(): Result<Option<u8>>
BatteryAnswers ==
    {[ok |-> FALSE, some |-> FALSE, val |-> 0],
     [ok |-> TRUE, some |-> FALSE, val |-> 0],
     [ok |-> TRUE, some |-> TRUE, val |-> 42]}

\* adapter.device_addresses(): Result<Vec<Address>>
AddressAnswers ==
    {[ok |-> FALSE, val |-> {}]} \cup {[ok |-> TRUE, val |-> S] : S \in SUBSET Addrs}

DeviceAnswers ==
    [name : NameAnswers, paired : BoolAnswers, trusted : BoolAnswers,
     connected : BoolAnswers, battery : BatteryAnswers]

AllFailed(q) ==
    /\ ~q.name.ok /\ ~q.paired.ok /\ ~q.trusted.ok
    /\ ~q.connected.ok /\ ~q.battery.ok

\* Every sub-query of one device failing.
NoAnswers ==
    [name |-> [ok |-> FALSE, some |-> FALSE, val |-> <<>>],
     paired |-> [ok |-> FALSE, val |-> FALSE],
     trusted |-> [ok |-> FALSE, val |-> FALSE],
     connected |-> [ok |-> FALSE, val |-> FALSE],
     battery |-> [ok |-> FALSE, some |-> FALSE, val |-> 0]]

\* Result::unwrap_or_default for bool
unwrap_or_default(r) == IF r.ok THEN r.val ELSE FALSE

-----------------------------------------------------------------------------
(* BTDeviceStatus, BTDevice *)

Statuses ==
    {"Paired", "Pairing", "Connected", "Connecting", "Disconnected", "Disconnecting"}

\* derive(PartialOrd, Ord) on the enum: declaration order.
StatusRank(s) ==
    CASE s = "Paired" -> 0
      [] s = "Pairing" -> 1
      [] s = "Connected" -> 2
      [] s = "Connecting" -> 3
      [] s = "Disconnected" -> 4
      [] s = "Disconnecting" -> 5

is_on_or_paired(device) == device.status \in {"Connected", "Paired"}
is_on(device) == device.status = "Connected"

DeriveStatusPairedFirst(is_connected, is_paired) ==
    IF is_paired THEN "Paired"
    ELSE IF is_connected THEN "Connected"
    ELSE "Disconnected"

DeriveStatus(is_connected, is_paired) ==
    IF is_connected THEN "Connected"
    ELSE IF is_paired THEN "Paired"
    ELSE "Disconnected"

from_device_propagating(addr, q) ==
    LET is_paired == unwrap_or_default(q.paired)
        is_connected == unwrap_or_default(q.connected)
    IN  [name |-> IF q.name.ok /\ q.name.some THEN q.name.val ELSE <<>>,
         address |-> addr,
         status |-> IF q.connected.ok THEN DeriveStatus(is_connected, is_paired)
                    ELSE "Disconnecting",
         battery_percentage |-> IF q.battery.ok /\ q.battery.some
                                THEN Battery(q.battery.val) ELSE NoBattery,
         is_paired |-> is_paired,
         is_trusted |-> unwrap_or_default(q.trusted)]

from_device(addr, q) ==
    LET name0 == IF q.name.ok /\ q.name.some THEN q.name.val
                 ELSE AddressToString(addr)
        name1 == IF Len(name0) = 0 THEN AddressToString(addr) ELSE name0
        is_paired == unwrap_or_default(q.paired)
        is_trusted == unwrap_or_default(q.trusted)
        is_connected == unwrap_or_default(q.connected)
        battery == IF q.battery.ok /\ q.battery.some
                   THEN Battery(q.battery.val) ELSE NoBattery
    IN  [name |-> name1,
         address |-> addr,
         status |-> DeriveStatus(is_connected, is_paired),
         battery_percentage |-> battery,
         is_paired |-> is_paired,
         is_trusted |-> is_trusted]

DeviceCmpCaseSensitive(a, b) ==
    IF StatusRank(a.status) < StatusRank(b.status) THEN -1
    ELSE IF StatusRank(a.status) > StatusRank(b.status) THEN 1
    ELSE StrCmp(a.name, b.name)

\* Ord for BTDevice: status first, then lower-cased name.
DeviceCmp(a, b) ==
    IF StatusRank(a.status) < StatusRank(b.status) THEN -1
    ELSE IF StatusRank(a.status) > StatusRank(b.status) THEN 1
    ELSE StrCmp(to_lowercase(a.name), to_lowercase(b.name))

DeviceEqDerived(a, b) == a = b

\* PartialEq for BTDevice.
DeviceEq(a, b) == a.name = b.name /\ a.address = b.address

\* Vec::sort(): a stable sort by DeviceCmp.
RECURSIVE InsertStable(_, _)
InsertStable(sorted, d) ==
    IF Len(sorted) = 0 THEN <<d>>
    ELSE IF DeviceCmp(d, sorted[1]) < 0 THEN <<d>> \o sorted
    ELSE <<sorted[1]>> \o InsertStable(Tail(sorted), d)

RECURSIVE SortDevices(_)
SortDevices(ds) ==
    IF Len(ds) = 0 THEN <<>>
    ELSE InsertStable(SortDevices(SubSeq(ds, 1, Len(ds) - 1)), ds[Len(ds)])

DefaultState == [on |-> FALSE, devices |-> <<>>]
ErrState == [ok |-> FALSE, state |-> DefaultState]
OkState(s) == [ok |-> TRUE, state |-> s]

build_state_strict(power, addresses, completed) ==
    IF power.ok /\ addresses.ok
    THEN OkState([on |-> power.val, devices |-> SortDevices(completed)])
    ELSE ErrState

\* build_state, given the power answer, the enumeration answer and the
\* devices in the order their futures completed.
build_state(power, addresses, completed) ==
    IF power.ok
    THEN OkState([on |-> power.val, devices |-> SortDevices(completed)])
    ELSE ErrState


-----------------------------------------------------------------------------
(* tokio::sync::mpsc::channel(32) *)

Capacity == 32

\* Sender::send() completes only once it holds one of the `Capacity` permits.
HasPermitOffByOne(q) == Len(q) <= Capacity
HasPermit(q) == Len(q) < Capacity

\* The message goes to the back of the queue.
EnqueueFront(q, m) == <<m>> \o q
Enqueue(q, m) == Append(q, m)

Senders == {"tx1", "tx2"}

\* tx1 sends enough to fill the mailbox and to be suspended; tx2 sends a few.
BurstSends == Capacity + 1
OtherSends == 1
SendLimit(s) == IF s = "tx1" THEN BurstSends ELSE OtherSends

FnIdle == f_pc = "input" /\ f_in = <<>> /\ f_out = <<>>
BpIdle ==
    /\ bp_btq = <<>> /\ bp_appq = <<>> /\ bp_trayq = 0
    /\ bp_w = "recv" /\ bp_r = "recv" /\ bp_tasks = 0 /\ bp_clicks = 0 /\ bp_served = 0
AppIdle ==
    /\ a_pc = "recv" /\ a_task = "recv"
    /\ a_events = <<>> /\ a_actions = <<>>
    /\ a_esent = 0 /\ a_asent = 0 /\ a_log = <<>>

MailIdle ==
    /\ mb_queue = <<>>
    /\ mb_pc = [s \in Senders |-> "idle"]
    /\ mb_sent = [s \in Senders |-> SendLimit(s)]
    /\ mb_recv = [s \in Senders |-> SendLimit(s)]
    /\ mb_last = [s \in Senders |-> SendLimit(s)]

-----------------------------------------------------------------------------
(* The pipeline: messages, snapshots and the hardware they are built from *)

MaxIntents == 2
MaxChanges == 2

IntentIds == 1..MaxIntents

\* The device known to the adapter in the pipeline, with the answers its
\* queries give.
PipeAddrs == {Addr1}

HwAnswers(a, conn) ==
    [name |-> [ok |-> TRUE, some |-> TRUE, val |-> NameAb],
     paired |-> [ok |-> TRUE, val |-> TRUE],
     trusted |-> [ok |-> TRUE, val |-> TRUE],
     connected |-> [ok |-> TRUE, val |-> a \in conn],
     battery |-> [ok |-> TRUE, some |-> TRUE, val |-> 42]]

\* The orders in which the futures of a FuturesUnordered may complete.
CompletionOrders(S) ==
    {o \in [1..Cardinality(S) -> S] : \A i, j \in 1..Cardinality(S) : o[i] = o[j] => i = j}

\* build_state against the hardware; the power query may fail.
HwBuild(power_ok, on, conn, order) ==
    build_state([ok |-> power_ok, val |-> power_ok /\ on],
                [ok |-> TRUE, val |-> PipeAddrs],
                [i \in 1..Len(order) |-> from_device(order[i], HwAnswers(order[i], conn))])

\* A snapshot with the history of where it was built: src is "default",
\* "init", "intent", "delayed" or "change", id the intent it belongs to.
Snap(state, src, id) ==
    [on |-> state.on, devices |-> state.devices, src |-> src, id |-> id]

SameState(a, b) == a.on = b.on /\ a.devices = b.devices

NoSnap == Snap(DefaultState, "default", 0)

NoDevice == from_device(Addr2, NoAnswers)

\* bluetooth::Action
ToggleBluetooth == [kind |-> "ToggleBluetooth", device |-> NoDevice]
ToggleDevice(d) == [kind |-> "ToggleDevice", device |-> d]

\* Tray::menu: the "Bluetooth" entry, then one entry per device of the state,
\* whose closure owns local_device = device.clone().  `state` records the
\* state the entries were built from.
menu(state) ==
    [state |-> state,
     items |-> <<ToggleBluetooth>>
               \o [i \in 1..Len(state.devices) |-> ToggleDevice(state.devices[i])]]

\* BTEvent, AppEvent, TrayEvent; `id` numbers the Requests in the order they
\* are put on btq.
BtInit(snap) == [type |-> "Init", action |-> ToggleBluetooth, state |-> snap, id |-> 0]
BtRequest(action, snap, id) ==
    [type |-> "Request", action |-> action, state |-> snap, id |-> id]
\* `n` records which activation the Request comes from.
AppRequest(action, n) ==
    [type |-> "Request", action |-> action, state |-> NoSnap, n |-> n]
AppResponse(snap) == [type |-> "Response", action |-> ToggleBluetooth, state |-> snap]
TrayUpdate(snap) == [type |-> "Update", state |-> snap]

NoMsg == BtInit(NoSnap)

NoIntent ==
    [kind |-> "none", imm |-> "none", spawned |-> 0, del |-> "none", early |-> FALSE]

PipeIdle ==
    /\ hw_on = FALSE /\ hw_conn = {} /\ hw_events = 0 /\ hw_changes = 0
    /\ btq = <<>> /\ appq = <<>> /\ trayq = <<>>
    /\ w_pc = "recv" /\ w_msg = NoMsg /\ w_snap = NoSnap /\ w_calls = <<>>
    /\ l_pc = "stopped" /\ l_snap = NoSnap /\ l_count = 0
    /\ d_pc = [i \in IntentIds |-> "none"] /\ d_snap = [i \in IntentIds |-> NoSnap]
    /\ r_held = NoSnap
    /\ t_state = NoSnap /\ t_menu = menu(NoSnap) /\ t_tasks = {} /\ t_activated = 0
    /\ g_requests = 0 /\ g_intent = [i \in IntentIds |-> NoIntent]
    /\ g_pubs = 0 /\ g_lastpub = NoSnap /\ g_shown = 0

-----------------------------------------------------------------------------
(* SpecBuild: build_state step by step, one await at a time *)

BuildIdle ==
    /\ bs_pc = "done"
    /\ bs_on = [ok |-> FALSE, val |-> FALSE]
    /\ bs_enumerated = [ok |-> FALSE, val |-> {}]
    /\ bs_resolved = {}
    /\ bs_pending = {}
    /\ bs_devices = <<>>
    /\ bs_result = ErrState
    /\ bs_lastq = NoAnswers
    /\ bs_allfailed = TRUE

BootIdle ==
    /\ boot_pc = "done"
    /\ retry_count = 0
    /\ boot_error = ""
    /\ boot_init_sent = TRUE
    /\ boot_spawned = {"listener", "loop"}
    /\ boot_attempts = 1
    /\ boot_slept = <<>>

InitBuild ==
    /\ FnIdle /\ AppIdle /\ BpIdle
    /\ PipeIdle
    /\ BootIdle
    /\ MailIdle
    /\ bs_pc = "power"
    /\ bs_on = [ok |-> FALSE, val |-> FALSE]
    /\ bs_enumerated = [ok |-> FALSE, val |-> {}]
    /\ bs_resolved = {}
    /\ bs_pending = {}
    /\ bs_devices = <<>>
    /\ bs_result = ErrState
    /\ bs_lastq = NoAnswers
    /\ bs_allfailed = TRUE

\* let on = adapter.is_powered().await?;
BsPower ==
    /\ bs_pc = "power"
    /\ \E r \in BoolAnswers :
        /\ bs_on' = r
        /\ IF r.ok
           THEN bs_pc' = "addresses" /\ UNCHANGED bs_result
           ELSE bs_pc' = "done" /\ bs_result' = build_state(r, bs_enumerated, <<>>)
    /\ UNCHANGED <<bs_enumerated, bs_resolved, bs_pending, bs_devices, bs_lastq,
                   bs_allfailed>>
    /\ UNCHANGED notBuild

\* adapter.device_addresses().await.unwrap_or_default(), then
\* filter_map(|address| adapter.device(address).ok())
BsAddresses ==
    /\ bs_pc = "addresses"
    /\ \E r \in AddressAnswers :
        /\ bs_enumerated' = r
        /\ \E resolved \in SUBSET (IF r.ok THEN r.val ELSE {}) :
              bs_resolved' = resolved /\ bs_pending' = resolved
    /\ bs_pc' = "devices"
    /\ UNCHANGED <<bs_on, bs_devices, bs_result, bs_lastq, bs_allfailed>>
    /\ UNCHANGED notBuild

\* one future of the FuturesUnordered completes; devices.push(device)
BsFromDevice ==
    /\ bs_pc = "devices"
    /\ \E a \in bs_pending, q \in DeviceAnswers :
        /\ bs_devices' = Append(bs_devices, from_device(a, q))
        /\ bs_pending' = bs_pending \ {a}
        /\ bs_lastq' = q
        /\ bs_allfailed' = (bs_allfailed /\ AllFailed(q))
    /\ UNCHANGED <<bs_pc, bs_on, bs_enumerated, bs_resolved, bs_result>>
    /\ UNCHANGED notBuild

\* devices.sort(); Ok(BTState { on, devices })
BsFinish ==
    /\ bs_pc = "devices"
    /\ bs_pending = {}
    /\ bs_result' = build_state(bs_on, bs_enumerated, bs_devices)
    /\ bs_pc' = "done"
    /\ UNCHANGED <<bs_on, bs_enumerated, bs_resolved, bs_pending, bs_devices, bs_lastq,
                   bs_allfailed>>
    /\ UNCHANGED notBuild

NextBuild == BsPower \/ BsAddresses \/ BsFromDevice \/ BsFinish

SpecBuild == InitBuild /\ [][NextBuild]_vars

-----------------------------------------------------------------------------
(* Claims about build_state and from_device, checked under SpecBuild *)

BsDone == bs_pc = "done"
BsEnumeratedSet == IF bs_enumerated.ok THEN bs_enumerated.val ELSE {}
BsAddressesOf(ds) == {ds[i].address : i \in 1..Len(ds)}

\* C8: build_state fails if and only if the power-state query fails; a failed
\* address enumeration gives a successful snapshot with no devices, and no
\* answer of a per-device query makes it fail.
C8_FailsOnlyOnPowerQuery ==
    BsDone =>
        /\ (~bs_result.ok) <=> (~bs_on.ok)
        /\ (bs_on.ok /\ ~bs_enumerated.ok) =>
              (bs_result.ok /\ bs_result.state.devices = <<>>)
        /\ bs_on.ok => bs_result.state.on = bs_on.val

C8_Witness ==
    /\ BsDone /\ bs_on.ok /\ ~bs_enumerated.ok
    /\ bs_result.ok /\ bs_result.state.devices = <<>>

HasDefaults(d) ==
    /\ d.name = AddressToString(d.address)
    /\ d.is_paired = FALSE
    /\ d.is_trusted = FALSE
    /\ d.battery_percentage = NoBattery
    /\ d.status = "Disconnected"

\* C9 as stated: with every per-device sub-query failing the snapshot is
\* successful and holds one default Device per enumerated address.
C9_OnePerEnumeratedAddress ==
    (BsDone /\ bs_on.ok /\ bs_allfailed) =>
        /\ bs_result.ok
        /\ Len(bs_result.state.devices) = Cardinality(BsEnumeratedSet)
        /\ BsAddressesOf(bs_result.state.devices) = BsEnumeratedSet
        /\ \A i \in 1..Len(bs_result.state.devices) :
              HasDefaults(bs_result.state.devices[i])

\* C9 (amended): with every per-device sub-query failing the snapshot is
\* successful and holds one default Device per enumerated address whose
\* device handle could be resolved; an address whose handle lookup fails is
\* left out.
C9_OnePerResolvedAddress ==
    (BsDone /\ bs_on.ok /\ bs_allfailed) =>
        /\ bs_result.ok
        /\ Len(bs_result.state.devices) = Cardinality(bs_resolved)
        /\ BsAddressesOf(bs_result.state.devices) = bs_resolved
        /\ bs_resolved \subseteq BsEnumeratedSet
        /\ \A i \in 1..Len(bs_result.state.devices) :
              HasDefaults(bs_result.state.devices[i])

C9_Witness ==
    /\ BsDone /\ bs_on.ok /\ bs_allfailed
    /\ bs_result.ok
    /\ Len(bs_result.state.devices) = Cardinality(Addrs)
    /\ \A i \in 1..Len(bs_result.state.devices) :
          HasDefaults(bs_result.state.devices[i])

ReturnedTrue(answer) == answer.ok /\ answer.val

RebuildStatuses == {"Connected", "Paired", "Disconnected"}

\* C10: every device of a rebuilt snapshot is Connected if its connected query
\* returned true, else Paired if its paired query returned true, else
\* Disconnected; Pairing, Connecting and Disconnecting never occur; is_on()
\* holds exactly for the devices whose connected query returned true; a
\* connected device whose battery query returns 42 is Connected, Some(42), on.
C10_StatusDerivation ==
    /\ \A i \in 1..Len(bs_devices) : bs_devices[i].status \in RebuildStatuses
    /\ bs_result.ok =>
          \A i \in 1..Len(bs_result.state.devices) :
              /\ bs_result.state.devices[i].status \in RebuildStatuses
              /\ is_on(bs_result.state.devices[i])
                    <=> bs_result.state.devices[i].status = "Connected"
    /\ Len(bs_devices) > 0 =>
          LET d == bs_devices[Len(bs_devices)] IN
          /\ d.status = IF ReturnedTrue(bs_lastq.connected) THEN "Connected"
                        ELSE IF ReturnedTrue(bs_lastq.paired) THEN "Paired"
                        ELSE "Disconnected"
          /\ is_on(d) <=> ReturnedTrue(bs_lastq.connected)
          /\ (ReturnedTrue(bs_lastq.connected)
                /\ bs_lastq.battery = [ok |-> TRUE, some |-> TRUE, val |-> 42]) =>
                (d.status = "Connected" /\ d.battery_percentage = Battery(42)
                    /\ is_on(d))

C10_Witness ==
    /\ BsDone /\ bs_result.ok /\ bs_result.state.on
    /\ Len(bs_result.state.devices) = 1
    /\ LET d == bs_result.state.devices[1] IN
          /\ d.address = Addr1
          /\ AddressToString(d.address)
                = <<65, 65, 58, 66, 66, 58, 67, 67, 58, 68, 68, 58, 69, 69, 58, 70, 70>>
          /\ ReturnedTrue(bs_lastq.connected)
          /\ d.status = "Connected"
          /\ d.battery_percentage = Battery(42)
          /\ is_on(d)

-----------------------------------------------------------------------------
(* SpecBoot: init_bluetooth up to the spawn of its two tasks *)

MaxRetries == 16
BackoffCeiling == 65536

\* retry_count >= 16
RetriesExhaustedLate(rc) == rc > MaxRetries
RetriesExhausted(rc) == rc >= MaxRetries

\* 2_u64.saturating_pow(retry_count).min(65_536). The power saturates at
\* u64::MAX for retry_count >= 64; every power above 2^16 is cut to the
\* ceiling by min, so powers above 2^30 are not computed.
BackoffFloored(rc) ==
    IF rc > 30 THEN 2 ^ 30
    ELSE IF 2 ^ rc >= BackoffCeiling THEN 2 ^ rc ELSE BackoffCeiling
Backoff(rc) == IF rc > 30 THEN BackoffCeiling ELSE Min(2 ^ rc, BackoffCeiling)

InitBoot ==
    /\ FnIdle /\ AppIdle /\ BpIdle
    /\ PipeIdle
    /\ BuildIdle
    /\ MailIdle
    /\ boot_pc = "open"
    /\ retry_count = 0
    /\ boot_error = ""
    /\ boot_init_sent = FALSE
    /\ boot_spawned = {}
    /\ boot_attempts = 0
    /\ boot_slept = <<>>

\* if let Ok(session) = Session::new().await { break session; }
BootOpen ==
    /\ boot_pc = "open"
    /\ boot_attempts' = boot_attempts + 1
    /\ \E ok \in BOOLEAN : boot_pc' = IF ok THEN "adapter" ELSE "check"
    /\ UNCHANGED <<retry_count, boot_error, boot_init_sent, boot_spawned, boot_slept>>
    /\ UNCHANGED notBoot

\* if retry_count >= 16 { bail!(..) }; retry_count = retry_count.saturating_add(1);
\* then the sleep is started with its delay
BootCheck ==
    /\ boot_pc = "check"
    /\ IF RetriesExhausted(retry_count)
       THEN /\ boot_pc' = "fatal"
            /\ boot_error' = "session"
            /\ UNCHANGED <<retry_count, boot_slept>>
       ELSE /\ retry_count' = retry_count + 1
            /\ boot_slept' = Append(boot_slept, Backoff(retry_count + 1))
            /\ boot_pc' = "sleep"
            /\ UNCHANGED boot_error
    /\ UNCHANGED <<boot_init_sent, boot_spawned, boot_attempts>>
    /\ UNCHANGED notBoot

\* the sleep elapses; the loop starts over
BootSleep ==
    /\ boot_pc = "sleep"
    /\ boot_pc' = "open"
    /\ UNCHANGED <<retry_count, boot_error, boot_init_sent, boot_spawned,
                   boot_attempts, boot_slept>>
    /\ UNCHANGED notBoot

\* let adapter = session.default_adapter().await?;
BootAdapter ==
    /\ boot_pc = "adapter"
    /\ \E ok \in BOOLEAN :
          IF ok THEN boot_pc' = "build" /\ UNCHANGED boot_error
          ELSE boot_pc' = "fatal" /\ boot_error' = "adapter"
    /\ UNCHANGED <<retry_count, boot_init_sent, boot_spawned, boot_attempts, boot_slept>>
    /\ UNCHANGED notBoot

\* let state = build_state(&adapter).await?;
BootBuild ==
    /\ boot_pc = "build"
    /\ \E power \in BoolAnswers :
          IF build_state(power, [ok |-> TRUE, val |-> {}], <<>>).ok
          THEN boot_pc' = "send" /\ UNCHANGED boot_error
          ELSE boot_pc' = "fatal" /\ boot_error' = "build_state"
    /\ UNCHANGED <<retry_count, boot_init_sent, boot_spawned, boot_attempts, boot_slept>>
    /\ UNCHANGED notBoot

\* tx.send(BTEvent::Init(state)).await?;  (the mailbox was just created: it
\* is empty and its receiver is alive)
BootSend ==
    /\ boot_pc = "send"
    /\ boot_init_sent' = TRUE
    /\ boot_pc' = "spawn"
    /\ UNCHANGED <<retry_count, boot_error, boot_spawned, boot_attempts, boot_slept>>
    /\ UNCHANGED notBoot

\* tokio::spawn(listen_for_device_changes(..)); tokio::spawn(request loop); Ok(tx)
BootSpawn ==
    /\ boot_pc = "spawn"
    /\ boot_spawned' = {"listener", "loop"}
    /\ boot_pc' = "done"
    /\ UNCHANGED <<retry_count, boot_error, boot_init_sent, boot_attempts, boot_slept>>
    /\ UNCHANGED notBoot

NextBoot ==
    \/ BootOpen \/ BootCheck \/ BootSleep \/ BootAdapter
    \/ BootBuild \/ BootSend \/ BootSpawn

SpecBoot == InitBoot /\ [][NextBoot]_vars

\* Every await of the bootstrap returns and the runtime keeps polling it.
SpecBootFair == SpecBoot /\ WF_vars(NextBoot)

(* Claims about the bootstrap *)

BootTerminated == boot_pc \in {"done", "fatal"}

\* C6 as stated: the bootstrap aborts after attempt 16 fails and never opens a
\* session a 17th time.
C6_NoSeventeenthAttempt ==
    /\ boot_attempts <= 16
    /\ boot_error = "session" => boot_attempts = 16

\* C6 (amended): the bootstrap always terminates; it yields a session on the
\* first successful open, or aborts with a fatal error after attempt 17 (the
\* first attempt and 16 retries) fails; an 18th attempt is never made, and
\* after a fatal error nothing more happens: no retry, no initial snapshot,
\* no task.
C6_BootSafe ==
    /\ boot_attempts <= MaxRetries + 1
    /\ boot_error = "session" =>
          (boot_attempts = MaxRetries + 1 /\ Len(boot_slept) = MaxRetries)
    /\ boot_pc \in {"adapter", "build", "send", "spawn", "done"} =>
          (boot_attempts = retry_count + 1 /\ boot_error = "")
    /\ boot_pc = "fatal" =>
          /\ boot_error # ""
          /\ ~boot_init_sent
          /\ boot_spawned = {}
          /\ ~ENABLED NextBoot
    /\ boot_spawned # {} => boot_init_sent

C6_BootTerminates == []C6_BootSafe /\ <>BootTerminated

C6_Witness ==
    /\ boot_pc = "fatal" /\ boot_error = "session"
    /\ boot_attempts = 17 /\ ~boot_init_sent /\ boot_spawned = {}

Doubling ==
    <<2, 4, 8, 16, 32, 64, 128, 256, 512, 1024, 2048, 4096, 8192, 16384, 32768, 65536>>

\* C7: the delay slept after the n-th failed attempt, n = 1..16, is
\* min(2^n, 65536) ms: 2, 4, 8, ... doubling, never above 65536.
C7_BackoffDelays ==
    /\ Len(boot_slept) <= 16
    /\ boot_slept = SubSeq(Doubling, 1, Len(boot_slept))
    /\ \A n \in 1..Len(boot_slept) : boot_slept[n] <= 65536
    /\ boot_pc = "sleep" => Len(boot_slept) = boot_attempts

C7_Witness ==
    /\ boot_pc = "sleep"
    /\ boot_attempts = 16
    /\ Len(boot_slept) = 16
    /\ boot_slept[1] = 2
    /\ boot_slept[16] = 65536

-----------------------------------------------------------------------------
(* SpecMailbox: a mailbox of capacity 32, two senders, one receive loop *)

InitMailbox ==
    /\ FnIdle /\ AppIdle /\ BpIdle
    /\ PipeIdle
    /\ BuildIdle
    /\ BootIdle
    /\ mb_queue = <<>>
    /\ mb_pc = [s \in Senders |-> "idle"]
    /\ mb_sent = [s \in Senders |-> 0]
    /\ mb_recv = [s \in Senders |-> 0]
    /\ mb_last = [s \in Senders |-> 0]

\* a task calls tx.send(msg).await
MbSendCall(s) ==
    /\ mb_pc[s] = "idle"
    /\ mb_sent[s] < SendLimit(s)
    /\ mb_pc' = [mb_pc EXCEPT ![s] = "sending"]
    /\ UNCHANGED <<mb_queue, mb_sent, mb_recv, mb_last>>
    /\ UNCHANGED notMail

\* the send obtains a permit and the message is queued
MbSendDone(s) ==
    /\ mb_pc[s] = "sending"
    /\ HasPermit(mb_queue)
    /\ mb_queue' = Enqueue(mb_queue, [from |-> s, seq |-> mb_sent[s] + 1])
    /\ mb_sent' = [mb_sent EXCEPT ![s] = @ + 1]
    /\ mb_pc' = [mb_pc EXCEPT ![s] = "idle"]
    /\ UNCHANGED <<mb_recv, mb_last>>
    /\ UNCHANGED notMail

\* while let Some(msg) = rx.recv().await
MbRecv ==
    /\ mb_queue # <<>>
    /\ LET m == Head(mb_queue) IN
          /\ mb_recv' = [mb_recv EXCEPT ![m.from] = @ + 1]
          /\ mb_last' = [mb_last EXCEPT ![m.from] = m.seq]
    /\ mb_queue' = Tail(mb_queue)
    /\ UNCHANGED <<mb_pc, mb_sent>>
    /\ UNCHANGED notMail

NextMailbox ==
    \/ \E s \in Senders : MbSendCall(s)
    \/ \E s \in Senders : MbSendDone(s)
    \/ MbRecv

SpecMailbox == InitMailbox /\ [][NextMailbox]_vars

\* The receiver stays alive: its loop keeps calling recv().
SpecMailboxFair == SpecMailbox /\ WF_vars(MbRecv)

(* Claims about the mailbox *)

RECURSIVE SeqsFrom(_, _)
SeqsFrom(q, s) ==
    IF q = <<>> THEN <<>>
    ELSE IF Head(q).from = s THEN <<Head(q).seq>> \o SeqsFrom(Tail(q), s)
    ELSE SeqsFrom(Tail(q), s)

C5_MailboxSafe ==
    /\ Len(mb_queue) <= 32
    /\ \A s \in Senders :
          /\ SeqsFrom(mb_queue, s) = [i \in 1..(mb_sent[s] - mb_recv[s]) |-> mb_recv[s] + i]
          /\ mb_last[s] = mb_recv[s]
          /\ mb_recv[s] <= mb_sent[s]
          /\ Len(mb_queue) = 32 => ~ENABLED MbSendDone(s)
          /\ (mb_pc[s] = "sending" /\ Len(mb_queue) < 32) => ENABLED MbSendDone(s)
    /\ mb_queue # <<>> => ENABLED MbRecv

MbDrained == \A s \in Senders : mb_recv[s] = mb_sent[s]

\* C5: a mailbox holds at most 32 messages and drops none: with 32 pending a
\* send stays suspended until a slot frees, then completes; the messages of
\* one sender are received in the order sent, each exactly once; with the
\* receiver alive every accepted message is eventually received.
C5_MailboxBackpressure == []C5_MailboxSafe /\ <>[]MbDrained

\* Both senders suspended in their send on the full mailbox.
C5_Witness ==
    /\ Len(mb_queue) = Capacity
    /\ mb_pc["tx1"] = "sending"
    /\ mb_pc["tx2"] = "sending"

-----------------------------------------------------------------------------
(* Spec: the running pipeline, from the moment init_bluetooth has returned *)

\* bluetooth.rs sets no deadline on a driver call or on a send, and a timer
\* only says "not before": the model lets every await take any time.

Init ==
    /\ FnIdle /\ AppIdle /\ BpIdle
    /\ BuildIdle /\ BootIdle /\ MailIdle
    /\ hw_on = TRUE /\ hw_conn = {} /\ hw_events = 0 /\ hw_changes = 0
    /\ \E o \in CompletionOrders(PipeAddrs) :
          btq = <<BtInit(Snap(HwBuild(TRUE, hw_on, hw_conn, o).state, "init", 0))>>
    /\ appq = <<>> /\ trayq = <<>>
    /\ w_pc = "recv" /\ w_msg = NoMsg /\ w_snap = NoSnap /\ w_calls = <<>>
    /\ l_pc = "subscribe" /\ l_snap = NoSnap /\ l_count = 0
    /\ d_pc = [i \in IntentIds |-> "none"] /\ d_snap = [i \in IntentIds |-> NoSnap]
    /\ r_held = NoSnap
    /\ t_state = NoSnap /\ t_menu = menu(NoSnap) /\ t_tasks = {} /\ t_activated = 0
    /\ g_requests = 0 /\ g_intent = [i \in IntentIds |-> NoIntent]
    /\ g_pubs = 0 /\ g_lastpub = NoSnap /\ g_shown = 0

\* A change of the hardware state puts one event in the listener's stream,
\* if the listener has subscribed.
Subscribed == l_pc \in {"next", "send"}
Emit(changed) == IF changed /\ Subscribed THEN hw_events + 1 ELSE hw_events

\* app_tx.send(AppEvent::Response(state)).await, completed
Publish(snap) ==
    /\ HasPermit(appq)
    /\ appq' = Enqueue(appq, AppResponse(snap))
    /\ g_pubs' = g_pubs + 1
    /\ g_lastpub' = snap

(* ---- toggle_bluetooth: the rfkill listing ---- *)

\* str::trim on ASCII text: spaces off both ends
RECURSIVE TrimStart(_)
TrimStart(s) == IF Len(s) > 0 /\ s[1] = 32 THEN TrimStart(Tail(s)) ELSE s
RECURSIVE TrimEnd(_)
TrimEnd(s) ==
    IF Len(s) > 0 /\ s[Len(s)] = 32 THEN TrimEnd(SubSeq(s, 1, Len(s) - 1)) ELSE s
Trim(s) == TrimEnd(TrimStart(s))

\* str::split_once(" "): the text before and after the first space
SplitOnce(s) ==
    LET at == {i \in 1..Len(s) : s[i] = 32} IN
    IF at = {} THEN [some |-> FALSE, id |-> <<>>, cname |-> <<>>]
    ELSE LET i == CHOOSE k \in at : \A m \in at : k <= m
         IN  [some |-> TRUE, id |-> SubSeq(s, 1, i - 1), cname |-> SubSeq(s, i + 1, Len(s))]

NameContains(name, cname) ==
    \E i \in 0..(Len(cname) - Len(name)) : SubSeq(cname, i + 1, i + Len(name)) = name
NameEquals(name, cname) == name = cname

\* lines.split("\n").find_map(|row| ..): the id of the first row whose
\* device column is the adapter's name
RECURSIVE FindDeviceId(_, _)
FindDeviceId(name, rows) ==
    IF Len(rows) = 0 THEN [some |-> FALSE, id |-> <<>>]
    ELSE LET cols == SplitOnce(Trim(rows[1])) IN
         IF cols.some /\ NameEquals(name, cols.cname)
         THEN [some |-> TRUE, id |-> cols.id]
         ELSE FindDeviceId(name, Tail(rows))

\* "hci0", the name of the adapter
AdapterName == <<104, 99, 105, 48>>

\* What `rfkill list -n --output ID,DEVICE` may give: no output at all (the
\* command failed), or its rows.
\*   " 0 phy0" / " 1 hci0"            the adapter is entry 1
\*   "0 hci01" / "1 xhci0" / "hci0"   names around the adapter's, none equal
RfkillFailed == [ok |-> FALSE, rows |-> <<>>]
RfkillListed ==
    [ok |-> TRUE,
     rows |-> << <<32, 48, 32, 112, 104, 121, 48>>, <<32, 49, 32, 104, 99, 105, 48>>, <<>> >>]
RfkillOthers ==
    [ok |-> TRUE,
     rows |-> << <<48, 32, 104, 99, 105, 48, 49>>, <<49, 32, 120, 104, 99, 105, 48>>,
                 <<104, 99, 105, 48>>, <<>> >>]
RfkillOutputs == {RfkillFailed, RfkillListed, RfkillOthers}

\* .ok().and_then(..): the id to block or unblock, if any
device_id(output) ==
    IF output.ok THEN FindDeviceId(AdapterName, output.rows)
    ELSE [some |-> FALSE, id |-> <<>>]

(* ---- the request loop of init_bluetooth ---- *)

\* while let Some(action) = rx.recv().await: the loop is at its head
LoopReadyAfterTimers == w_pc = "recv" /\ \A i \in IntentIds : d_pc[i] # "sleeping"
LoopReady == w_pc = "recv"

\* which match arm spawns the delayed rebuild
SchedulesDelayedAlways(action) == TRUE
SchedulesDelayed(action) == action.kind = "ToggleBluetooth"

WRecv ==
    /\ LoopReady
    /\ btq # <<>>
    /\ LET m == Head(btq) IN
          /\ w_msg' = m
          /\ IF m.type = "Init"
             THEN w_pc' = "send" /\ w_snap' = m.state /\ UNCHANGED g_intent
             ELSE /\ w_pc' = "mutate" /\ UNCHANGED w_snap
                  /\ g_intent' = [g_intent EXCEPT ![m.id].kind = m.action.kind]
    /\ btq' = Tail(btq)
    /\ w_calls' = <<>>
    /\ UNCHANGED <<hwVars, appq, trayq, lVars, dVars, rVars, tVars>>
    /\ UNCHANGED <<g_requests, g_pubs, g_lastpub, g_shown>>
    /\ UNCHANGED notPipe

\* the calls of toggle_bluetooth: set_powered(!on) once, whatever it returns,
\* then rfkill block/unblock for the id found, if one was found
SetPowered(on, power_ok) ==
    [call |-> "set_powered", arg |-> IF on THEN "false" ELSE "true",
     id |-> <<>>, err |-> ~power_ok]
Rfkill(on, found) ==
    IF found.some
    THEN <<[call |-> "rfkill", arg |-> IF on THEN "block" ELSE "unblock",
            id |-> found.id, err |-> FALSE]>>   \* result: log only
    ELSE <<>>
toggle_bluetooth_retrying(on, power_ok, found) ==
    (IF power_ok THEN <<>> ELSE <<SetPowered(on, FALSE)>>)
    \o <<SetPowered(on, power_ok)>> \o Rfkill(on, found)
toggle_bluetooth(on, power_ok, found) ==
    <<SetPowered(on, power_ok)>> \o Rfkill(on, found)

\* toggle_bluetooth up to its settle sleep: set_powered(!on), then rfkill
\* list and block/unblock for the entry named like the adapter
WToggleBluetooth ==
    /\ w_pc = "mutate"
    /\ w_msg.action.kind = "ToggleBluetooth"
    /\ LET on == w_msg.state.on IN
       \E power_ok \in BOOLEAN, output \in RfkillOutputs :
          LET now_on == IF power_ok THEN ~on ELSE hw_on
              now_conn == IF now_on THEN hw_conn ELSE {}
              found == device_id(output)
          IN  /\ hw_on' = now_on
              /\ hw_conn' = now_conn
              /\ w_calls' = toggle_bluetooth(on, power_ok, found)
    /\ w_pc' = "settle"
    /\ UNCHANGED <<hw_events, hw_changes, btq, appq, trayq, w_msg, w_snap>>
    /\ UNCHANGED <<lVars, dVars, rVars, tVars, gVars>>
    /\ UNCHANGED notPipe

\* the spawn of the delayed rebuild of request `id`
SpawnDelayed(id) ==
    /\ d_pc' = [d_pc EXCEPT ![id] = "sleeping"]
    /\ g_intent' = [g_intent EXCEPT ![id].spawned = @ + 1]

\* the 100 ms sleep that ends toggle_bluetooth is over
WSettle ==
    /\ w_pc = "settle"
    /\ IF SchedulesDelayed(w_msg.action)
       THEN SpawnDelayed(w_msg.id)
       ELSE UNCHANGED <<d_pc, g_intent>>
    /\ w_pc' = "build"
    /\ UNCHANGED <<hwVars, btq, appq, trayq, w_msg, w_snap, w_calls>>
    /\ UNCHANGED <<lVars, d_snap, rVars, tVars>>
    /\ UNCHANGED <<g_requests, g_pubs, g_lastpub, g_shown>>
    /\ UNCHANGED notPipe

\* toggle_device(&adapter, &device.address, device.is_on())
WToggleDevice ==
    /\ w_pc = "mutate"
    /\ w_msg.action.kind = "ToggleDevice"
    /\ LET d == w_msg.action.device IN
       \E resolved \in BOOLEAN, ok \in BOOLEAN :
          LET done == resolved /\ ok /\ (is_on(d) \/ hw_on)
              now_conn == IF ~done THEN hw_conn
                          ELSE IF is_on(d) THEN hw_conn \ {d.address}
                          ELSE hw_conn \cup {d.address}
          IN  /\ hw_conn' = now_conn
              /\ w_calls' =
                    IF resolved
                    THEN <<[call |-> IF is_on(d) THEN "disconnect" ELSE "connect",
                            arg |-> "device", id |-> d.address, err |-> ~done]>>
                    ELSE <<>>
    /\ IF SchedulesDelayed(w_msg.action)
       THEN SpawnDelayed(w_msg.id)
       ELSE UNCHANGED <<d_pc, g_intent>>
    /\ w_pc' = "build"
    /\ UNCHANGED <<hw_on, hw_events, hw_changes, btq, appq, trayq, w_msg, w_snap>>
    /\ UNCHANGED <<lVars, d_snap, rVars, tVars>>
    /\ UNCHANGED <<g_requests, g_pubs, g_lastpub, g_shown>>
    /\ UNCHANGED notPipe

\* if let Ok(state) = build_state(&adapter).await
WBuild ==
    /\ w_pc = "build"
    /\ \E power_ok \in BOOLEAN, o \in CompletionOrders(PipeAddrs) :
          LET res == HwBuild(power_ok, hw_on, hw_conn, o) IN
          IF res.ok
          THEN /\ w_snap' = Snap(res.state, "intent", w_msg.id)
               /\ w_pc' = "send"
               /\ UNCHANGED <<g_intent, w_msg, w_calls>>
          ELSE /\ w_pc' = "recv"
               /\ g_intent' = [g_intent EXCEPT ![w_msg.id].imm = "failed"]
               /\ w_msg' = NoMsg /\ w_calls' = <<>>
               /\ UNCHANGED w_snap
    /\ UNCHANGED <<hwVars, btq, appq, trayq>>
    /\ UNCHANGED <<lVars, dVars, rVars, tVars>>
    /\ UNCHANGED <<g_requests, g_pubs, g_lastpub, g_shown>>
    /\ UNCHANGED notPipe

\* app_tx.send(AppEvent::Response(..)).await, for Init and for Request
WSend ==
    /\ w_pc = "send"
    /\ Publish(w_snap)
    /\ g_intent' = IF w_msg.type = "Request"
                   THEN [g_intent EXCEPT ![w_msg.id].imm = "published"]
                   ELSE g_intent
    /\ w_pc' = "recv"
    /\ w_msg' = NoMsg /\ w_snap' = NoSnap /\ w_calls' = <<>>
    /\ UNCHANGED <<hwVars, btq, trayq>>
    /\ UNCHANGED <<lVars, dVars, rVars, tVars>>
    /\ UNCHANGED <<g_requests, g_shown>>
    /\ UNCHANGED notPipe

(* ---- the delayed rebuild spawned for a ToggleBluetooth ---- *)

\* the 5000 ms sleep is over; build_state(&local_adapter).await
DWake(i) ==
    /\ d_pc[i] = "sleeping"
    /\ \E power_ok \in BOOLEAN, o \in CompletionOrders(PipeAddrs) :
          LET res == HwBuild(power_ok, hw_on, hw_conn, o) IN
          IF res.ok
          THEN /\ d_snap' = [d_snap EXCEPT ![i] = Snap(res.state, "delayed", i)]
               /\ d_pc' = [d_pc EXCEPT ![i] = "send"]
               /\ UNCHANGED g_intent
          ELSE /\ d_pc' = [d_pc EXCEPT ![i] = "done"]
               /\ g_intent' = [g_intent EXCEPT ![i].del = "failed"]
               /\ UNCHANGED d_snap
    /\ UNCHANGED <<hwVars, btq, appq, trayq, wVars, lVars, rVars, tVars>>
    /\ UNCHANGED <<g_requests, g_pubs, g_lastpub, g_shown>>
    /\ UNCHANGED notPipe

\* let _ = app_tx.send(AppEvent::Response(state)).await
DSend(i) ==
    /\ d_pc[i] = "send"
    /\ Publish(d_snap[i])
    /\ d_pc' = [d_pc EXCEPT ![i] = "done"]
    /\ d_snap' = [d_snap EXCEPT ![i] = NoSnap]
    /\ g_intent' = [g_intent EXCEPT ![i].del = "published",
                                    ![i].early = (g_intent[i].imm = "none")]
    /\ UNCHANGED <<hwVars, btq, trayq, wVars, lVars, rVars, tVars>>
    /\ UNCHANGED <<g_requests, g_shown>>
    /\ UNCHANGED notPipe

(* ---- listen_for_device_changes ---- *)

\* the subscription loop: discover_devices_with_changes() succeeds in one of
\* its attempts, or the attempts run out and the task returns
LSubscribe ==
    /\ l_pc = "subscribe"
    /\ \E established \in BOOLEAN :
          l_pc' = IF established THEN "next" ELSE "stopped"
    /\ UNCHANGED <<hwVars, btq, appq, trayq, wVars, l_snap, l_count, dVars, rVars, tVars, gVars>>
    /\ UNCHANGED notPipe

\* stream.next().await yields an event; build_state(&adapter).await
LNext ==
    /\ l_pc = "next"
    /\ hw_events > 0
    /\ hw_events' = hw_events - 1
    /\ \E power_ok \in BOOLEAN, o \in CompletionOrders(PipeAddrs) :
          LET res == HwBuild(power_ok, hw_on, hw_conn, o) IN
          IF res.ok
          THEN l_snap' = Snap(res.state, "change", 0) /\ l_pc' = "send" /\ UNCHANGED l_count
          ELSE UNCHANGED lVars
    /\ UNCHANGED <<hw_on, hw_conn, hw_changes, btq, appq, trayq>>
    /\ UNCHANGED <<wVars, dVars, rVars, tVars, gVars>>
    /\ UNCHANGED notPipe

\* let _ = app_tx.send(AppEvent::Response(state)).await
LSend ==
    /\ l_pc = "send"
    /\ Publish(l_snap)
    /\ l_pc' = "next"
    /\ l_snap' = NoSnap
    /\ UNCHANGED l_count
    /\ UNCHANGED <<hwVars, btq, trayq, wVars, dVars, rVars, tVars>>
    /\ UNCHANGED <<g_requests, g_intent, g_shown>>
    /\ UNCHANGED notPipe

(* ---- the driver signals a change ---- *)

\* A device connects or disconnects by itself, or the driver reports a
\* change made by an earlier call of the request loop.
HwChange ==
    /\ hw_changes < MaxChanges
    /\ hw_changes' = hw_changes + 1
    /\ \/ UNCHANGED hw_conn
       \/ \E a \in PipeAddrs :
             /\ a \in hw_conn \/ hw_on
             /\ hw_conn' = IF a \in hw_conn THEN hw_conn \ {a} ELSE hw_conn \cup {a}
    /\ hw_events' = Emit(TRUE)
    /\ UNCHANGED <<hw_on, btq, appq, trayq, wVars, lVars, dVars, rVars, tVars, gVars>>
    /\ UNCHANGED notPipe

(* ---- the Reconciler: receives AppEvents, one at a time ---- *)

\* AppEvent::Response(state): the snapshot replaces the held one and goes to
\* the Indicator Sink as TrayEvent::Update(state)
RResponse ==
    /\ appq # <<>>
    /\ Head(appq).type = "Response"
    /\ HasPermit(trayq)
    /\ r_held' = Head(appq).state
    /\ trayq' = Enqueue(trayq, TrayUpdate(Head(appq).state))
    /\ appq' = Tail(appq)
    /\ UNCHANGED <<hwVars, btq, wVars, lVars, dVars, tVars, gVars>>
    /\ UNCHANGED notPipe

\* AppEvent::Request(action): the intent goes to the watcher with the held
\* snapshot, as BTEvent::Request { action, state }
RRequest ==
    /\ appq # <<>>
    /\ Head(appq).type = "Request"
    /\ HasPermit(btq)
    /\ g_requests < MaxIntents
    /\ btq' = Enqueue(btq, BtRequest(Head(appq).action, r_held, g_requests + 1))
    /\ appq' = Tail(appq)
    /\ g_requests' = g_requests + 1
    /\ UNCHANGED <<hwVars, trayq, wVars, lVars, dVars, r_held, tVars>>
    /\ UNCHANGED <<g_intent, g_pubs, g_lastpub, g_shown>>
    /\ UNCHANGED notPipe

(* ---- the Indicator Sink ---- *)

\* Tray::update
update_keeping_devices(tray_state, state) == [state EXCEPT !.devices = tray_state.devices]
update(tray_state, state) == state

\* the entries of Tray::menu that post an intent
MenuActions(state) ==
    {ToggleBluetooth} \cup {ToggleDevice(state.devices[i]) : i \in 1..Len(state.devices)}

\* init_tray's loop: TrayEvent::Update(state) => handle.update(|tray| tray.update(state))
TRecv ==
    /\ trayq # <<>>
    /\ t_state' = update(t_state, Head(trayq).state)
    /\ trayq' = Tail(trayq)
    /\ g_shown' = g_shown + 1
    /\ UNCHANGED <<hwVars, btq, appq, wVars, lVars, dVars, rVars, t_menu, t_tasks, t_activated>>
    /\ UNCHANGED <<g_requests, g_intent, g_pubs, g_lastpub>>
    /\ UNCHANGED notPipe

\* the indicator service calls Tray::menu again after an update
TMenu ==
    /\ t_menu # menu(t_state)
    /\ t_menu' = menu(t_state)
    /\ UNCHANGED <<hwVars, btq, appq, trayq, wVars, lVars, dVars, rVars>>
    /\ UNCHANGED <<t_state, t_tasks, t_activated, gVars>>
    /\ UNCHANGED notPipe

\* the closure of entry i, run with `this` = the tray as it is now: it sends
\* the Action it owns
activate_from_live_state(items, i, this_state) ==
    IF items[i].kind = "ToggleDevice" /\ i - 1 \in 1..Len(this_state.devices)
    THEN ToggleDevice(this_state.devices[i - 1])
    ELSE items[i]
activate(items, i, this_state) == items[i]

\* Tray::send_action: one task is spawned for the send, whatever the tasks
\* spawned before are doing
send_action_unless_busy(tasks, n, action) ==
    IF tasks = {} THEN {[n |-> n, action |-> action]} ELSE tasks
send_action(tasks, n, action) == tasks \cup {[n |-> n, action |-> action]}

\* the user activates an entry of the menu built last: send_action spawns a
\* task for the send
TActivate ==
    /\ t_activated < MaxIntents
    /\ t_activated' = t_activated + 1
    /\ \E i \in 1..Len(t_menu.items) :
          t_tasks' = send_action(t_tasks, t_activated + 1,
                                 activate(t_menu.items, i, t_state))
    /\ UNCHANGED <<hwVars, btq, appq, trayq, wVars, lVars, dVars, rVars>>
    /\ UNCHANGED <<t_state, t_menu, gVars>>
    /\ UNCHANGED notPipe

\* a spawned task: tx.send(AppEvent::Request(action)).await
TTaskSend ==
    /\ HasPermit(appq)
    /\ \E task \in t_tasks :
          /\ appq' = Enqueue(appq, AppRequest(task.action, task.n))
          /\ t_tasks' = t_tasks \ {task}
    /\ UNCHANGED <<hwVars, btq, trayq, wVars, lVars, dVars, rVars, t_state, t_menu, t_activated, gVars>>
    /\ UNCHANGED notPipe

\* The Device copies a menu entry can carry, and the snapshots the Reconciler
\* can bundle with an intent, as far as the watcher reads them.
MenuDevices == {from_device(a, HwAnswers(a, conn)) : a \in PipeAddrs, conn \in SUBSET PipeAddrs}
HeldStates == {Snap([on |-> on, devices |-> <<>>], "held", 0) : on \in BOOLEAN}

\* An intent reaches the watcher's mailbox: the path from the activated menu
\* entry through the Reconciler, taken as one step, with any Device copy and
\* any bundled snapshot.
Dispatch ==
    /\ g_requests < MaxIntents
    /\ HasPermit(btq)
    /\ \E action \in {ToggleBluetooth} \cup {ToggleDevice(d) : d \in MenuDevices},
          held \in HeldStates :
          btq' = Enqueue(btq, BtRequest(action, held, g_requests + 1))
    /\ g_requests' = g_requests + 1
    /\ UNCHANGED <<hwVars, appq, trayq, wVars, lVars, dVars, rVars, tVars>>
    /\ UNCHANGED <<g_intent, g_pubs, g_lastpub, g_shown>>
    /\ UNCHANGED notPipe

Next ==
    \/ WRecv \/ WToggleBluetooth \/ WSettle \/ WToggleDevice \/ WBuild \/ WSend
    \/ \E i \in IntentIds : DWake(i)
    \/ \E i \in IntentIds : DSend(i)
    \/ Dispatch
    \/ RResponse
    \/ TRecv

\* The watcher's request loop and its delayed rebuilds, with the Reconciler
\* and the Indicator Sink taking what they publish.
Spec == Init /\ [][Next]_vars

\* The request loop and its delayed rebuilds alone: what they publish stays
\* in the Reconciler's mailbox.
NextLoop ==
    \/ WRecv \/ WToggleBluetooth \/ WSettle \/ WToggleDevice \/ WBuild \/ WSend
    \/ \E i \in IntentIds : DWake(i)
    \/ \E i \in IntentIds : DSend(i)
    \/ Dispatch

SpecLoop == Init /\ [][NextLoop]_vars

\* The runtime runs a task that is ready, and a call to the driver returns.
SpecLoopFair == SpecLoop /\ WF_vars(NextLoop)

-----------------------------------------------------------------------------
(* The request loop: order of the intents, delayed rebuilds *)

\* The loop has taken request k from its mailbox; its iteration for request
\* j is over: the rebuild has returned and the snapshot it gave, if it gave
\* one, has been sent.
Started(k) == g_intent[k].kind # "none"
Completed(j) == g_intent[j].imm \in {"published", "failed"}
Mutating(k) == w_msg.type = "Request" /\ w_msg.id = k /\ w_pc \in {"settle", "build"}

C2_ImmediateAlwaysPublishedFirst ==
    \A i \in IntentIds :
        /\ (g_intent[i].kind = "ToggleBluetooth" /\ Completed(i)) =>
              /\ g_intent[i].imm = "published"
              /\ g_intent[i].spawned = 1
              /\ ~g_intent[i].early
        /\ g_intent[i].kind = "ToggleDevice" => g_intent[i].spawned = 0

\* C2: once toggle_bluetooth has returned for a ToggleBluetooth intent,
\* exactly one delayed rebuild has been spawned for it, and never a second;
\* a ToggleDevice intent spawns none; a rebuild, immediate or delayed,
\* publishes only the snapshot it built, and none if its power query failed.
C2_OneDelayedRebuild ==
    \A i \in IntentIds :
        /\ g_intent[i].spawned <= 1
        /\ (g_intent[i].kind = "ToggleBluetooth" /\ (Completed(i) \/ (w_msg.id = i /\ w_pc \in {"build", "send"})))
              => (g_intent[i].spawned = 1 /\ d_pc[i] # "none")
        /\ g_intent[i].kind = "ToggleDevice" => (g_intent[i].spawned = 0 /\ d_pc[i] = "none")
        /\ g_intent[i].kind = "none" => (g_intent[i].spawned = 0 /\ d_pc[i] = "none")
        /\ g_intent[i].del # "none" => (g_intent[i].spawned = 1 /\ d_pc[i] = "done")
        /\ d_pc[i] = "send" => (d_snap[i].src = "delayed" /\ d_snap[i].id = i)

\* a ToggleBluetooth whose two rebuilds are both published, and a
\* ToggleDevice processed after it
C2_Witness ==
    /\ g_intent[1].kind = "ToggleBluetooth"
    /\ g_intent[1].imm = "published"
    /\ g_intent[1].del = "published"
    /\ g_intent[2].kind = "ToggleDevice"
    /\ g_intent[2].imm = "published"

\* some delayed rebuild is waiting for its timer
DelayedPending == \E i \in IntentIds : d_pc[i] = "sleeping"

\* C3: while a delayed rebuild is pending the request loop is not held up:
\* it can take the next request as soon as one is in the mailbox, and every
\* step of the request in hand (mutation, settle, rebuild, send) can be
\* taken, the send as soon as the Reconciler's mailbox has room.
C3_DelayedDetached ==
    DelayedPending =>
        /\ (w_pc = "recv" /\ btq # <<>>) => ENABLED WRecv
        /\ w_pc = "mutate" => ENABLED (WToggleBluetooth \/ WToggleDevice)
        /\ w_pc = "settle" => ENABLED WSettle
        /\ w_pc = "build" => ENABLED WBuild
        /\ (w_pc = "send" /\ HasPermit(appq)) => ENABLED WSend

\* intent 2 has been received, executed and published while the delayed
\* rebuild of intent 1 is still waiting for its timer
C3_Witness ==
    /\ d_pc[1] = "sleeping"
    /\ g_intent[2].imm = "published"

-----------------------------------------------------------------------------
(* SpecSink: a change notification meets an intent's rebuild *)

\* The first snapshot has gone through to the Indicator Sink, the user has
\* activated one entry of the menu drawn from it, and the Reconciler has put
\* the intent on the watcher's mailbox with the snapshot it holds.
InitSink ==
    /\ FnIdle /\ AppIdle /\ BpIdle
    /\ BuildIdle /\ BootIdle /\ MailIdle
    /\ hw_on = TRUE /\ hw_conn = {} /\ hw_events = 0 /\ hw_changes = 0
    /\ \E o \in CompletionOrders(PipeAddrs) :
          LET first == Snap(HwBuild(TRUE, hw_on, hw_conn, o).state, "init", 0) IN
          /\ r_held = first /\ t_state = first /\ g_lastpub = first
          /\ \E action \in MenuActions(first) : btq = <<BtRequest(action, first, 1)>>
    /\ appq = <<>> /\ trayq = <<>>
    /\ w_pc = "recv" /\ w_msg = NoMsg /\ w_snap = NoSnap /\ w_calls = <<>>
    /\ l_pc = "subscribe" /\ l_snap = NoSnap /\ l_count = 0
    /\ d_pc = [i \in IntentIds |-> "none"] /\ d_snap = [i \in IntentIds |-> NoSnap]
    /\ t_menu = menu(t_state) /\ t_tasks = {} /\ t_activated = 1
    /\ g_requests = 1 /\ g_intent = [i \in IntentIds |-> NoIntent]
    /\ g_pubs = 1 /\ g_shown = 1

\* the steps of the tasks, and the step of the hardware
NextSinkTasks ==
    \/ WRecv \/ WToggleBluetooth \/ WSettle \/ WToggleDevice \/ WBuild \/ WSend
    \/ \E i \in IntentIds : DWake(i)
    \/ \E i \in IntentIds : DSend(i)
    \/ LSubscribe \/ LNext \/ LSend
    \/ RResponse
    \/ TRecv

NextSink == NextSinkTasks \/ HwChange

SpecSink == InitSink /\ [][NextSink]_vars

\* The runtime runs a task that is ready, and a call to the driver returns.
SpecSinkFair == SpecSink /\ WF_vars(NextSinkTasks)

\* a step takes the message at the head of q
Dequeued(q) == q # <<>> /\ q' = Tail(q)

\* The held snapshot and the shown snapshot change only when a snapshot is
\* taken from the mailbox, and then to that snapshot, all of it.
ReplacedWholesale ==
    /\ Dequeued(appq) => r_held' = Head(appq).state
    /\ ~Dequeued(appq) => r_held' = r_held
    /\ Dequeued(trayq) => t_state' = Head(trayq).state
    /\ ~Dequeued(trayq) => t_state' = t_state

\* every snapshot published so far has reached the Indicator Sink
Delivered == appq = <<>> /\ trayq = <<>>

\* no rebuild is in flight or still to come
Settled ==
    /\ Delivered
    /\ btq = <<>> /\ w_pc = "recv"
    /\ l_pc \in {"next", "stopped"} /\ hw_events = 0
    /\ \A i \in IntentIds : d_pc[i] \in {"none", "done"}

NextPipeline ==
    \/ WRecv \/ WToggleBluetooth \/ WSettle \/ WToggleDevice \/ WBuild \/ WSend
    \/ \E i \in IntentIds : DWake(i)
    \/ \E i \in IntentIds : DSend(i)
    \/ LSubscribe \/ LNext \/ LSend
    \/ HwChange
    \/ RResponse \/ RRequest
    \/ TRecv \/ TMenu \/ TActivate \/ TTaskSend

\* The whole pipeline, the request path step by step.
SpecPipeline == Init /\ [][NextPipeline]_vars

-----------------------------------------------------------------------------
(* SpecOrder: devices.sort() on any Vec<BTDevice> *)

MaxDevices == 3

\* "AB": the same name as "ab" once lower-cased
NameAB == <<65, 66>>
OrderNames == {NameAb, NameAB, NameB}

\* BTDevice records of every status
OrderDevices ==
    {[name |-> n, address |-> Addr1, status |-> st, battery_percentage |-> NoBattery,
      is_paired |-> FALSE, is_trusted |-> FALSE] : n \in OrderNames, st \in Statuses}

SeqsUpTo(S, n) == UNION {[1..k -> S] : k \in 0..n}

InitOrder ==
    /\ BuildIdle /\ BootIdle /\ MailIdle /\ PipeIdle /\ AppIdle /\ BpIdle
    /\ f_pc = "input"
    /\ f_in \in SeqsUpTo(OrderDevices, MaxDevices)
    /\ f_out = <<>>

\* build_state pushes the devices as their futures complete and sorts them
\* into the snapshot
SortIntoSnapshot ==
    /\ f_pc = "input"
    /\ f_out' = <<build_state([ok |-> TRUE, val |-> TRUE],
                              [ok |-> TRUE, val |-> {Addr1}], f_in).state.devices>>
    /\ f_pc' = "sorted"
    /\ UNCHANGED f_in
    /\ UNCHANGED notFn

\* devices.sort() once more, on the sorted Vec
SortAgain ==
    /\ f_pc = "sorted"
    /\ f_out' = Append(f_out, SortDevices(f_out[1]))
    /\ f_pc' = "resorted"
    /\ UNCHANGED f_in
    /\ UNCHANGED notFn

NextOrder == SortIntoSnapshot \/ SortAgain

SpecOrder == InitOrder /\ [][NextOrder]_vars

\* the key of the ordering: the priority of the status, then the name
\* without regard to case
StatusPriority ==
    <<"Paired", "Pairing", "Connected", "Connecting", "Disconnected", "Disconnecting">>
PriorityOf(st) == CHOOSE i \in 1..Len(StatusPriority) : StatusPriority[i] = st
KeyLeq(a, b) ==
    \/ PriorityOf(a.status) < PriorityOf(b.status)
    \/ /\ PriorityOf(a.status) = PriorityOf(b.status)
       /\ StrCmp(to_lowercase(a.name), to_lowercase(b.name)) <= 0
SortedByKey(ds) == \A i, j \in 1..Len(ds) : i < j => KeyLeq(ds[i], ds[j])
Occurrences(ds, d) == Cardinality({i \in 1..Len(ds) : ds[i] = d})
SameDevices(a, b) ==
    /\ Len(a) = Len(b)
    /\ \A i \in 1..Len(a) : Occurrences(a, a[i]) = Occurrences(b, a[i])

\* C11: the device sequence of a snapshot holds the devices collected, in the
\* order of the key (status priority Paired < Pairing < Connected <
\* Connecting < Disconnected < Disconnecting, then name without regard to
\* case); sorting the sorted sequence again returns the identical sequence.
C11_SortedAndIdempotent ==
    /\ f_pc \in {"sorted", "resorted"} =>
          (SortedByKey(f_out[1]) /\ SameDevices(f_out[1], f_in))
    /\ f_pc = "resorted" => f_out[2] = f_out[1]

\* an unsorted Vec of MaxDevices devices, two of them different records with
\* the same key, sorted and sorted again
C11_Witness ==
    /\ f_pc = "resorted"
    /\ Len(f_in) = MaxDevices
    /\ f_out[1] # f_in
    /\ \E i, j \in 1..Len(f_in) :
          f_in[i] # f_in[j] /\ KeyLeq(f_in[i], f_in[j]) /\ KeyLeq(f_in[j], f_in[i])

-----------------------------------------------------------------------------
(* SpecEq: BTDevice == BTDevice on any two records *)

\* BTDevice records that differ in every field
EqDevices ==
    {[name |-> n, address |-> a, status |-> st, battery_percentage |-> bat,
      is_paired |-> p, is_trusted |-> t] :
        n \in {NameAb, NameAB}, a \in Addrs,
        st \in {"Paired", "Connected", "Disconnecting"},
        bat \in {NoBattery, Battery(42)}, p \in BOOLEAN, t \in BOOLEAN}

InitEq ==
    /\ BuildIdle /\ BootIdle /\ MailIdle /\ PipeIdle /\ AppIdle /\ BpIdle
    /\ f_pc = "input"
    /\ f_in \in EqDevices \X EqDevices
    /\ f_out = <<>>

\* self == other
Compare ==
    /\ f_pc = "input"
    /\ f_out' = <<DeviceEq(f_in[1], f_in[2])>>
    /\ f_pc' = "compared"
    /\ UNCHANGED f_in
    /\ UNCHANGED notFn

NextEq == Compare

SpecEq == InitEq /\ [][NextEq]_vars

\* the two records differ at most in status, flags and battery
SameIdentity(a, b) == a.name = b.name /\ a.address = b.address

\* C12: two device records are equal if and only if their names and their
\* addresses both match; status, paired and trusted flags and battery play
\* no part.
C12_EqualityByNameAndAddress ==
    f_pc = "compared" => (f_out[1] <=> SameIdentity(f_in[1], f_in[2]))

\* two records of the same name and address that differ in status, in both
\* flags and in battery have compared equal
C12_Witness ==
    /\ f_pc = "compared"
    /\ f_out[1] = TRUE
    /\ f_in[1].status # f_in[2].status
    /\ f_in[1].is_paired # f_in[2].is_paired
    /\ f_in[1].is_trusted # f_in[2].is_trusted
    /\ f_in[1].battery_percentage # f_in[2].battery_percentage

-----------------------------------------------------------------------------
(* The request loop: the mutation calls *)

\* the request loop has made the calls of a ToggleDevice / ToggleBluetooth
HandlingDevice ==
    w_msg.type = "Request" /\ w_msg.action.kind = "ToggleDevice" /\ w_pc \in {"build", "send"}
HandlingBluetooth ==
    /\ w_msg.type = "Request" /\ w_msg.action.kind = "ToggleBluetooth"
    /\ w_pc \in {"settle", "build", "send"}

\* C13 as stated: the call issued for a ToggleDevice is disconnect if the
\* device is connected at that moment, and connect otherwise.
C13_TogglesCurrentStatus ==
    [][(w_pc = "mutate" /\ w_msg.action.kind = "ToggleDevice" /\ w_pc' = "build"
        /\ w_calls' # <<>>)
       => w_calls'[1].call = (IF w_msg.action.device.address \in hw_conn
                              THEN "disconnect" ELSE "connect")]_vars

\* C13: for a ToggleDevice the request loop issues at most one call, on the
\* device at the address of the Device record the intent carries: disconnect
\* if the status in that record is Connected, connect otherwise, whatever the
\* device's status is by then; no call when the handle was not resolved; and
\* with or without an error of the call the rebuild comes next.
C13_ToggleDeviceByCarriedStatus ==
    HandlingDevice =>
        /\ Len(w_calls) <= 1
        /\ \A i \in 1..Len(w_calls) :
              /\ w_calls[i].id = w_msg.action.device.address
              /\ w_calls[i].call = (IF w_msg.action.device.status = "Connected"
                                    THEN "disconnect" ELSE "connect")
        /\ w_pc = "build" => ENABLED WBuild
        /\ w_pc = "send" => (w_snap.src = "intent" /\ w_snap.id = w_msg.id)

\* the record carried says Connected, the device is not connected any more:
\* disconnect was issued, it failed, and the rebuild has been made
C13_Witness ==
    /\ HandlingDevice /\ w_pc = "send"
    /\ w_msg.action.device.status = "Connected"
    /\ w_msg.action.device.address \notin hw_conn
    /\ Len(w_calls) = 1 /\ w_calls[1].call = "disconnect" /\ w_calls[1].err

\* the id of the rfkill entry whose device column is "hci0", in every
\* listing that has one: "1"
AdapterEntryId == <<49>>

\* The adapter is powered from the start and nothing but a ToggleBluetooth
\* changes that: the first intent was posted while the adapter was powered.
FirstIntent == w_msg.type = "Request" /\ w_msg.id = 1

\* C14 as stated, for the first intent (p = true): a ToggleBluetooth posted
\* while the adapter is powered makes the request loop issue power-set
\* (false), and block on the matching entry.
C14_TogglesPostedPower ==
    (HandlingBluetooth /\ FirstIntent) =>
        /\ w_calls[1].call = "set_powered"
        /\ w_calls[1].arg = "false"
        /\ \A i \in 2..Len(w_calls) : w_calls[i].arg = "block"

\* C14: for a ToggleBluetooth the request loop issues power-set(not s.on),
\* s being the snapshot that came with the intent, whatever the power of the
\* adapter was when the intent was posted; then at most one rfkill command,
\* block if s.on and unblock if not, on the entry whose device name equals
\* the adapter's name, and none when the listing failed or no name is equal;
\* with or without a failure the settle delay and the rebuild come next.
C14_ToggleBluetoothByCarriedState ==
    HandlingBluetooth =>
        /\ Len(w_calls) \in {1, 2}
        /\ w_calls[1].call = "set_powered"
        /\ w_calls[1].arg = (IF w_msg.state.on THEN "false" ELSE "true")
        /\ \A i \in 2..Len(w_calls) :
              /\ w_calls[i].call = "rfkill"
              /\ w_calls[i].arg = (IF w_msg.state.on THEN "block" ELSE "unblock")
              /\ w_calls[i].id = AdapterEntryId
        /\ w_pc = "settle" => ENABLED WSettle
        /\ w_pc = "build" => ENABLED WBuild
        /\ w_pc = "send" => (w_snap.src = "intent" /\ w_snap.id = w_msg.id)

\* posted with the adapter powered and a snapshot that says so: power-set
\* (false) was issued and failed, block was issued on entry 1, and the
\* rebuild has been made
C14_Witness ==
    /\ HandlingBluetooth /\ w_pc = "send"
    /\ FirstIntent /\ w_msg.state.on
    /\ Len(w_calls) = 2
    /\ w_calls[1].arg = "false" /\ w_calls[1].err
    /\ w_calls[2].arg = "block" /\ w_calls[2].id = AdapterEntryId

\* a step in which hardware mutation calls are issued
MutationIssued == w_calls' # w_calls /\ w_calls' # <<>>

\* C16 as stated: the mutation calls issued never outnumber the intents
\* received (in SpecSink one intent is received in all, and w_calls holds
\* every call issued for it).
C16_MutationsAtMostIntents == Len(w_calls) <= g_requests

\* C16: mutation calls are issued only by a step of the request loop that is
\* handling a Request: that step leaves the listener, the delayed rebuilds,
\* the Reconciler, the Indicator Sink and every mailbox as they are, and the
\* adapter's power changes in no other step.  One intent leads to at most
\* two calls (ToggleBluetooth: power-set, then at most one kill-switch
\* command) or at most one (ToggleDevice).
C16_OnlyRequestLoopMutates ==
    /\ [][MutationIssued =>
             /\ w_pc = "mutate" /\ w_msg.type = "Request" /\ w_calls = <<>>
             /\ UNCHANGED <<lVars, dVars, rVars, tVars, btq, appq, trayq>>]_vars
    /\ [][hw_on' # hw_on => MutationIssued]_vars
    /\ [](w_msg.type # "Request" => w_calls = <<>>)
    /\ [](Len(w_calls) <= IF w_msg.action.kind = "ToggleBluetooth" THEN 2 ELSE 1)

\* two calls issued for one ToggleBluetooth while the listener is subscribed
C16_Witness ==
    /\ w_msg.type = "Request" /\ Len(w_calls) = 2
    /\ l_pc = "next" /\ r_held # NoSnap

-----------------------------------------------------------------------------
(* SpecListen: listen_for_device_changes with its subscription loop taken  *)
(* attempt by attempt, beside the request loop handling one intent.        *)

ListenRetries == 10

\* if count > 10 { return; }
GivesUpEarly(count) == count >= ListenRetries
GivesUp(count) == count > ListenRetries

\* one turn of the subscription loop: discover_devices_with_changes()
\* returns Ok and the loop breaks with the stream, or it returns Err, the
\* interval ticks, and the task returns or counts one more
LAttempt ==
    /\ l_pc = "subscribe"
    /\ \E established \in BOOLEAN :
          IF established
          THEN l_pc' = "next" /\ l_count' = 0
          ELSE IF GivesUp(l_count)
               THEN l_pc' = "stopped" /\ l_count' = 0
               ELSE l_pc' = "subscribe" /\ l_count' = l_count + 1
    /\ UNCHANGED <<hwVars, btq, appq, trayq, wVars, l_snap, dVars, rVars, tVars, gVars>>
    /\ UNCHANGED notPipe

NextListenTasks ==
    \/ WRecv \/ WToggleBluetooth \/ WSettle \/ WToggleDevice \/ WBuild \/ WSend
    \/ LAttempt \/ LNext \/ LSend

NextListen == NextListenTasks \/ HwChange

SpecListen == InitSink /\ [][NextListen]_vars

\* The runtime runs a task that is ready, and a call to the driver returns.
SpecListenFair == SpecListen /\ WF_vars(NextListenTasks)

\* the listener takes an event from its stream
EventTaken == hw_events' < hw_events
\* the request loop is done with the intent: its rebuild was published, or
\* the rebuild failed
Served == btq = <<>> /\ w_pc = "recv" /\ g_intent[1].imm \in {"published", "failed"}
\* a snapshot of the hardware as it is now
Current(snap) ==
    \E o \in CompletionOrders(PipeAddrs) :
       SameState(snap, HwBuild(TRUE, hw_on, hw_conn, o).state)

IntentPublished ==
    (IF g_intent[1].imm = "published" THEN 1 ELSE 0)
    + (IF g_intent[1].del = "published" THEN 1 ELSE 0)
\* the listener was subscribed at every hardware change, each of its
\* rebuilds succeeded and was published, and so were the intent's
EveryRebuildPublished ==
    /\ l_pc = "next"
    /\ g_intent[1].imm = "published"
    /\ g_intent[1].del = (IF g_intent[1].spawned > 0 THEN "published" ELSE "none")
    /\ g_pubs = 1 + IntentPublished + hw_changes

\* C19 as stated, in the most favourable case (no rebuild failed, every
\* change was notified): once nothing is in flight or still to come, the
\* snapshot held by the Indicator Sink is the hardware's state.
C19_EventuallyConsistent ==
    (Settled /\ EveryRebuildPublished) => Current(t_state)

-----------------------------------------------------------------------------
(* SpecTray: the Indicator Sink alone.  Updates arrive on the channel made *)
(* by init_tray, the indicator service rebuilds the menu, the user         *)
(* activates entries, and each activation's task sends its intent.         *)

MaxUpdates == 2

\* the states an Update can carry
TrayStates ==
    {Snap(HwBuild(TRUE, hw[1], hw[2], o).state, "change", 0) :
        hw \in {h \in BOOLEAN \X SUBSET PipeAddrs : h[1] \/ h[2] = {}},
        o \in CompletionOrders(PipeAddrs)}

InitTray ==
    /\ BuildIdle /\ BootIdle /\ MailIdle /\ FnIdle /\ AppIdle /\ BpIdle
    /\ PipeIdle

\* a holder of the Sender<TrayEvent> returned by init_tray sends an Update
SendUpdate ==
    /\ g_pubs < MaxUpdates
    /\ HasPermit(trayq)
    /\ \E state \in TrayStates : trayq' = Enqueue(trayq, TrayUpdate(state))
    /\ g_pubs' = g_pubs + 1
    /\ UNCHANGED <<hwVars, btq, appq, wVars, lVars, dVars, rVars, tVars>>
    /\ UNCHANGED <<g_requests, g_intent, g_lastpub, g_shown>>
    /\ UNCHANGED notPipe

NextTrayTasks == TRecv \/ TMenu \/ TTaskSend

NextTray == NextTrayTasks \/ SendUpdate \/ TActivate

SpecTray == InitTray /\ [][NextTray]_vars

\* The runtime runs a task that is ready.
SpecTrayFair == SpecTray /\ WF_vars(NextTrayTasks)

\* an activation happens in this step
Activation == t_activated' = t_activated + 1

\* C18: an activated device entry posts the record the entry was built
\* with: the task spawned carries an action of the menu as built from its
\* state S (t_menu.state), whatever the tray's state is by now, and the
\* entries hold the records of S; a step that replaces the tray's state
\* leaves the entries built, the spawned tasks and the posted intents as
\* they are.
C18_EntryOwnsItsDevice ==
    /\ [](\A i \in 1..Len(t_menu.state.devices) :
             t_menu.items[i + 1] = ToggleDevice(t_menu.state.devices[i]))
    /\ [][Activation =>
             \E task \in t_tasks' \ t_tasks :
                /\ task.action \in MenuActions(t_menu.state)
                /\ \E i \in 1..Len(t_menu.items) : task.action = t_menu.items[i]]_vars
    /\ [][t_state' # t_state => UNCHANGED <<t_menu, t_tasks, appq>>]_vars

\* a device entry built from a superseded state was activated: the intent
\* carries a record that the tray's state no longer holds
C18_Witness ==
    \E task \in t_tasks :
       /\ task.action.kind = "ToggleDevice"
       /\ t_menu.state # t_state
       /\ task.action \in MenuActions(t_menu.state)
       /\ task.action \notin MenuActions(t_state)

\* the activations whose intent is in the mailbox, in mailbox order
Posted == [i \in 1..Len(appq) |-> appq[i].n]

\* C20 as stated: the intents are in the mailbox in the order of their
\* activations.
C20_ActivationOrder ==
    \A i, j \in 1..Len(appq) : i < j => appq[i].n < appq[j].n

\* C20: every activation's intent is posted once, by the task spawned for
\* it, and joins the back of the mailbox when that task's send completes;
\* no intent is lost or duplicated, and every task does send.  (The order
\* of two tasks' sends is not fixed.)
C20_EachIntentPostedOnce ==
    /\ [](/\ \A i, j \in 1..Len(appq) : i # j => appq[i].n # appq[j].n
          /\ {appq[i].n : i \in 1..Len(appq)} \cap {task.n : task \in t_tasks} = {}
          /\ {appq[i].n : i \in 1..Len(appq)} \cup {task.n : task \in t_tasks}
                = 1..t_activated)
    /\ [][appq' # appq =>
             \E task \in t_tasks :
                /\ appq' = Append(appq, AppRequest(task.action, task.n))
                /\ t_tasks' = t_tasks \ {task}]_vars
    /\ \A n \in IntentIds : (t_activated >= n) ~> (\E i \in 1..Len(appq) : appq[i].n = n)

\* the intent of the second activation is in the mailbox before the first's
C20_Witness == Len(appq) = 2 /\ appq[1].n = 2 /\ appq[2].n = 1

-----------------------------------------------------------------------------
(* SpecApp: App::run (app.rs).  run spawns a task that consumes action_rx  *)
(* and then consumes event_rx itself.  The spawned task's JoinHandle is    *)
(* dropped: the task is detached, and run neither aborts nor signals it.   *)

MaxEvents == 2
MaxActions == 2

Events == {"Update", "Shutdown"}
Actions == {"ToggleBluetooth", "ToggleDevice", "Scan"}

InitApp ==
    /\ BuildIdle /\ BootIdle /\ MailIdle /\ PipeIdle /\ FnIdle
    /\ AppIdle /\ BpIdle

\* event_rx is dropped when run returns: a later send returns Err
EventRxOpen == a_pc = "recv"
\* action_rx is owned by the spawned task and dropped when that task ends
ActionRxOpen == a_task = "recv"

\* App::send_event: self.event_tx.send(event).await
send_event ==
    /\ a_esent < MaxEvents
    /\ EventRxOpen /\ HasPermit(a_events)
    /\ \E event \in Events : a_events' = Enqueue(a_events, event)
    /\ a_esent' = a_esent + 1
    /\ UNCHANGED <<a_pc, a_task, a_actions, a_asent, a_log>>
    /\ UNCHANGED notApp

\* a holder of the Sender<Action> sends an action
SendAction ==
    /\ a_asent < MaxActions
    /\ ActionRxOpen /\ HasPermit(a_actions)
    /\ \E action \in Actions : a_actions' = Enqueue(a_actions, action)
    /\ a_asent' = a_asent + 1
    /\ UNCHANGED <<a_pc, a_task, a_events, a_esent, a_log>>
    /\ UNCHANGED notApp

\* while let Some(event) = event_rx.recv().await: Update is logged,
\* Shutdown breaks the loop and run returns Ok(()), dropping event_rx
RunEvent ==
    /\ a_pc = "recv" /\ a_events # <<>>
    /\ a_log' = Append(a_log, Head(a_events))
    /\ IF Head(a_events) = "Shutdown"
       THEN a_pc' = "returned" /\ a_events' = <<>>
       ELSE a_pc' = "recv" /\ a_events' = Tail(a_events)
    /\ UNCHANGED <<a_task, a_actions, a_esent, a_asent>>
    /\ UNCHANGED notApp

\* the spawned task: while let Some(action) = action_rx.recv().await, and
\* every arm of the match is todo!(): the task panics, which drops action_rx
RunAction ==
    /\ a_task = "recv" /\ a_actions # <<>>
    /\ a_log' = Append(a_log, Head(a_actions))
    /\ a_task' = "panicked" /\ a_actions' = <<>>
    /\ UNCHANGED <<a_pc, a_events, a_esent, a_asent>>
    /\ UNCHANGED notApp

NextApp == send_event \/ SendAction \/ RunEvent \/ RunAction

SpecApp == InitApp /\ [][NextApp]_vars

\* C15: once Shutdown has been observed nothing more is received: no later
\* event is processed and no new intent is accepted, i.e. Shutdown is the
\* last entry of the history of received events and actions.
C15_ShutdownEndsIntake ==
    \A i \in 1..Len(a_log) : a_log[i] = "Shutdown" => i = Len(a_log)

-----------------------------------------------------------------------------
(* SpecBackpressure: the three mailboxes under load.  Only the kind of a   *)
(* message is kept.  The request loop receives from its mailbox and sends  *)
(* to the Reconciler's (bluetooth.rs); the send_action tasks send to the   *)
(* Reconciler's (tray.rs); the Reconciler receives from its mailbox and    *)
(* sends a Request on to the request loop's mailbox and a Response on to   *)
(* the sink's, suspending when the mailbox is full.                        *)
(*                                                                         *)
(* The specification starts where the user has activated entries faster    *)
(* than the request loop serves them: the loop is inside the hardware call *)
(* of one intent, its mailbox is full of forwarded intents, and the        *)
(* Reconciler's mailbox holds the snapshot of the intent served before and *)
(* behind it further intents.                                              *)

MaxClicks == 2
MaxServed == 3

Filled(n, kind) == [i \in 1..n |-> kind]

InitBackpressure ==
    /\ BuildIdle /\ BootIdle /\ MailIdle /\ PipeIdle /\ FnIdle /\ AppIdle
    /\ bp_w = "handle"
    /\ bp_btq = Filled(Capacity, "Request")
    /\ bp_r = "recv"
    /\ bp_appq = <<"Response">> \o Filled(Capacity - 1, "Request")
    /\ bp_trayq = <<>>
    /\ bp_tasks = 0 /\ bp_clicks = 0 /\ bp_served = 0

\* Tray::send_action: the activation spawns a task for the send
BpActivate ==
    /\ bp_clicks < MaxClicks
    /\ bp_clicks' = bp_clicks + 1
    /\ bp_tasks' = bp_tasks + 1
    /\ UNCHANGED <<bp_btq, bp_appq, bp_trayq, bp_w, bp_r, bp_served>>
    /\ UNCHANGED notBp

\* a spawned task: tx.send(AppEvent::Request(action)).await completes
BpTaskSend ==
    /\ bp_tasks > 0
    /\ HasPermit(bp_appq)
    /\ bp_appq' = Enqueue(bp_appq, "Request")
    /\ bp_tasks' = bp_tasks - 1
    /\ UNCHANGED <<bp_btq, bp_trayq, bp_w, bp_r, bp_clicks, bp_served>>
    /\ UNCHANGED notBp

\* the request loop: rx.recv().await yields a BTEvent
BpLoopRecv ==
    /\ bp_served < MaxServed
    /\ bp_served' = bp_served + 1
    /\ bp_w = "recv"
    /\ bp_btq # <<>>
    /\ bp_w' = IF Head(bp_btq) = "Init" THEN "send" ELSE "handle"
    /\ bp_btq' = Tail(bp_btq)
    /\ UNCHANGED <<bp_appq, bp_trayq, bp_r, bp_tasks, bp_clicks>>
    /\ UNCHANGED notBp

\* BTEvent::Request: the mutation, then if let Ok(state) = build_state(..)
BpLoopHandle ==
    /\ bp_w = "handle"
    /\ \E built \in BOOLEAN : bp_w' = IF built THEN "send" ELSE "recv"
    /\ UNCHANGED <<bp_btq, bp_appq, bp_trayq, bp_r, bp_tasks, bp_clicks, bp_served>>
    /\ UNCHANGED notBp

\* app_tx.send(AppEvent::Response(state)).await completes
BpLoopSend ==
    /\ bp_w = "send"
    /\ HasPermit(bp_appq)
    /\ bp_appq' = Enqueue(bp_appq, "Response")
    /\ bp_w' = "recv"
    /\ UNCHANGED <<bp_btq, bp_trayq, bp_r, bp_tasks, bp_clicks, bp_served>>
    /\ UNCHANGED notBp

\* the Reconciler takes the next AppEvent from its mailbox
BpReconcilerRecv ==
    /\ bp_r = "recv"
    /\ bp_appq # <<>>
    /\ bp_r' = IF Head(bp_appq) = "Request" THEN "send_bt" ELSE "send_tray"
    /\ bp_appq' = Tail(bp_appq)
    /\ UNCHANGED <<bp_btq, bp_trayq, bp_w, bp_tasks, bp_clicks, bp_served>>
    /\ UNCHANGED notBp

\* the Reconciler's send of BTEvent::Request to the request loop completes
BpForward ==
    /\ bp_r = "send_bt"
    /\ HasPermit(bp_btq)
    /\ bp_btq' = Enqueue(bp_btq, "Request")
    /\ bp_r' = "recv"
    /\ UNCHANGED <<bp_appq, bp_trayq, bp_w, bp_tasks, bp_clicks, bp_served>>
    /\ UNCHANGED notBp

\* the Reconciler's send of TrayEvent::Update to the sink completes
BpPublish ==
    /\ bp_r = "send_tray"
    /\ HasPermit(bp_trayq)
    /\ bp_trayq' = Enqueue(bp_trayq, "Update")
    /\ bp_r' = "recv"
    /\ UNCHANGED <<bp_btq, bp_appq, bp_w, bp_tasks, bp_clicks, bp_served>>
    /\ UNCHANGED notBp

\* init_tray's loop takes an Update and applies it
BpShow ==
    /\ bp_trayq # <<>>
    /\ bp_trayq' = Tail(bp_trayq)
    /\ UNCHANGED <<bp_btq, bp_appq, bp_w, bp_r, bp_tasks, bp_clicks, bp_served>>
    /\ UNCHANGED notBp

NextBackpressure ==
    \/ BpActivate \/ BpTaskSend
    \/ BpLoopRecv \/ BpLoopHandle \/ BpLoopSend
    \/ BpReconcilerRecv \/ BpForward \/ BpPublish
    \/ BpShow

SpecBackpressure == InitBackpressure /\ [][NextBackpressure]_vars

\* the request loop is suspended in its send to the Reconciler's full mailbox
LoopSuspended == bp_w = "send" /\ ~HasPermit(bp_appq)
\* the Reconciler is suspended in its send to the request loop's full mailbox
ReconcilerSuspended == bp_r = "send_bt" /\ ~HasPermit(bp_btq)

=============================================================================
